---- MODULE Spec2Model ----
(***************************************************************************)
(* Taskly front end: the hash router (src/routes/route.js), the two view   *)
(* initializers (registration form, todo board), the user service and the  *)
(* HTTP wrapper (api/http.js).                                             *)
(*                                                                         *)
(* Text is modelled as a sequence of pieces.  Text the code inspects       *)
(* (the location fragment, an input's value, a content type) is a sequence *)
(* of characters or tokens, so that startsWith, slice, trim and includes   *)
(* are computed; a literal the code only copies is one piece.  Template    *)
(* literals are concatenation (\o).                                        *)
(***************************************************************************)
EXTENDS Integers, Sequences, FiniteSets, Bags, TLC

VARIABLES
    listening,   \* initRouter has run: handleRoute listens to hashchange
    hash,        \* location.hash
    hashEvents,  \* hashchange events queued by the browser, not yet dispatched
    loads,       \* loadView calls in flight
    nFetch,      \* view fetches started so far
    nChange,     \* changes of location.hash so far
    app,         \* the #app container: what was last written to innerHTML
    served,      \* the markup the server holds for each view (set of element ids)
    forms,       \* the registration forms rendered so far, by the load that rendered them
    timers,      \* pending setTimeout redirects
    todos,       \* the <li class="todo"> children of #todoList, first child first
    input,       \* the value of #newTodo
    nextId,      \* identity of the next <li> created
    nPost,       \* registration POSTs started so far
    uncaught,    \* an event handler ended with an uncaught exception
    hx           \* one exchange of the HTTP wrapper (response received, result)

vars == <<listening, hash, hashEvents, loads, nFetch, nChange, app, served, forms,
          timers, nPost, todos, input, nextId, uncaught, hx>>

routerVars == <<listening, hash, hashEvents, loads, nFetch, nChange, app, served>>
homeVars == <<forms, timers, nPost>>
boardVars == <<todos, input, nextId>>

----------------------------------------------------------------------------
(* Bounds of the model *)

\* navigations (fragment changes) the user makes
MaxNav == 1
\* navigations the user makes between the two views
MaxViewNav == 2
\* registration submits that start a POST
MaxPost == 1
\* todo items created
MaxTodos == 2

----------------------------------------------------------------------------
(* Text helpers *)

\* String.prototype.startsWith
StartsWith(s, p) ==
    /\ Len(s) >= Len(p)
    /\ SubSeq(s, 1, Len(p)) = p

\* String.prototype.slice(n) for 0 <= n
Slice(s, n) == SubSeq(s, n + 1, Len(s))

\* white space as String.prototype.trim sees it
WhiteSpace == {" ", "\t"}

RECURSIVE TrimStart(_)
TrimStart(s) ==
    IF s # <<>> /\ Head(s) \in WhiteSpace THEN TrimStart(Tail(s)) ELSE s

RECURSIVE TrimEnd(_)
TrimEnd(s) ==
    IF s # <<>> /\ s[Len(s)] \in WhiteSpace
    THEN TrimEnd(SubSeq(s, 1, Len(s) - 1))
    ELSE s

\* String.prototype.trim
Trim(s) == TrimEnd(TrimStart(s))

\* String.prototype.includes, on token sequences
Includes(s, sub) ==
    \E i \in 0..(Len(s) - Len(sub)) : SubSeq(s, i + 1, i + Len(sub)) = sub

\* decimal digits of a natural number, as template literals print it
DigitChar == <<"0", "1", "2", "3", "4", "5", "6", "7", "8", "9">>

RECURSIVE NumToText(_)
NumToText(n) ==
    IF n < 10 THEN <<DigitChar[n + 1]>>
    ELSE NumToText(n \div 10) \o <<DigitChar[(n % 10) + 1]>>

----------------------------------------------------------------------------
(* Router: src/routes/route.js *)

HomeName == <<"h", "o", "m", "e">>
BoardName == <<"b", "o", "a", "r", "d">>
HashPrefix == <<"#", "/">>

\* const known = ['home', 'board']
known == {HomeName, BoardName}

\* the path handleRoute reads from a fragment
PathOf(h) ==
    LET p == IF StartsWith(h, HashPrefix) THEN Slice(h, 2) ELSE <<>>
    IN  IF p = <<>> THEN HomeName ELSE p

\* a router that matches a known name as a prefix of the path
RouteOfPrefix(h) ==
    IF StartsWith(PathOf(h), BoardName) THEN BoardName ELSE HomeName

\* the route handleRoute resolves a fragment to
RouteOf(h) == IF PathOf(h) \in known THEN PathOf(h) ELSE HomeName

BoardHash == HashPrefix \o BoardName
HomeHash == HashPrefix \o HomeName

\* the fragments the user navigates to
Fragments ==
    { <<>>, HashPrefix, HomeHash, BoardHash }

\* values of location.hash the page can be opened with: empty, or "#"
\* followed by at least one character
RoutePrefixes == {<<"#">>, HashPrefix, HashPrefix \o <<"/">>, <<"#">> \o HashPrefix}
RouteNames ==
    { <<>>, HomeName, BoardName, BoardName \o <<"s">>, <<"b", "o", "a", "r">>,
      <<"B", "o", "a", "r", "d">>, HomeName \o <<"/">>, <<"x">> }
RouteFragments ==
    ({p \o n : p \in RoutePrefixes, n \in RouteNames} \cup {<<>>}) \ {<<"#">>}

----------------------------------------------------------------------------
(* HTTP wrapper: api/http.js *)

\* JavaScript values a JSON payload's field can hold: absent, null, a string
Undef == [t |-> "undef", v |-> <<>>]
Null == [t |-> "null", v |-> <<>>]
Str(s) == [t |-> "str", v |-> s]

FieldValues == {Undef, Null, Str(<<>>), Str(<<"X">>), Str(<<"bad">>)}

\* parsed JSON bodies: null, a scalar or array (no fields), an object
JsNull == [t |-> "null", message |-> Undef, error |-> Undef]
JsScalar == [t |-> "scalar", message |-> Undef, error |-> Undef]
JsObj(m, e) == [t |-> "obj", message |-> m, error |-> e]

JsonValues == {JsNull, JsScalar} \cup {JsObj(m, e) : m, e \in FieldValues}

\* what res.json() meets: a body that parses to a value, or one that does not
Bodies == [parses : {TRUE}, value : JsonValues]
              \cup [parses : {FALSE}, value : {JsNull}]

\* content-type headers, tokenised; has = FALSE is a response without one
AppJson == <<"application/", "json">>
NoCType == [has |-> FALSE, v |-> <<>>]
CType(v) == [has |-> TRUE, v |-> v]
ContentTypes ==
    { NoCType,
      CType(AppJson),
      CType(AppJson \o <<";", " charset=utf-8">>),
      CType(<<"application/", "problem+", "json">>),
      CType(<<"text/", "html">>) }

Statuses == {200, 201, 299, 300, 400, 404, 409, 500}

\* what fetch can settle with: a response, or a rejection (network failure)
Responses ==
    [kind : {"response"}, status : Statuses, ctype : ContentTypes, body : Bodies]
FetchRejected ==
    [kind |-> "reject", status |-> 0, ctype |-> NoCType,
     body |-> [parses |-> FALSE, value |-> JsNull]]

\* the message of the TypeError fetch rejects with
FetchErrorText == <<"Failed to fetch">>

\* res.ok
Ok(status) == status \in 200..299

\* further JavaScript values a caller passes as a body: a number (v is its
\* decimal text) and an object (v is the text of its members)
Num(d) == [t |-> "num", v |-> d]
Obj(members) == [t |-> "obj", v |-> members]

\* an own property that an options object does not have
Absent == [t |-> "absent", v |-> <<>>]

\* a headers object; v is its Content-Type, empty when it has none
Headers(ct) == [t |-> "hdr", v |-> ct]

\* JavaScript truthiness of a value
Truthy(f) ==
    \/ f.t = "str" /\ f.v # <<>>
    \/ f.t = "num" /\ f.v # <<"0">>
    \/ f.t = "obj"

\* payload?.message, payload?.error: undefined unless payload is an object
GetMessage(payload) == IF payload.t = "obj" THEN payload.message ELSE Undef
GetError(payload) == IF payload.t = "obj" THEN payload.error ELSE Undef

\* const isJSON = res.headers.get('content-type')?.includes('application/json')
IsJSON(res) == res.ctype.has /\ Includes(res.ctype.v, AppJson)

\* const payload = isJSON ? await res.json().catch(() => null) : null
PayloadOf(res) ==
    IF IsJSON(res)
    THEN IF res.body.parses THEN res.body.value ELSE JsNull
    ELSE JsNull

\* a wrapper that chains the fields with ?? instead of ||
ErrorTextNullish(res) ==
    LET payload == PayloadOf(res)
    IN  IF GetMessage(payload).t = "str" THEN GetMessage(payload).v
        ELSE IF GetError(payload).t = "str" THEN GetError(payload).v
        ELSE <<"HTTP ">> \o NumToText(res.status)

\* payload?.message || payload?.error || `HTTP ${res.status}`
ErrorText(res) ==
    LET payload == PayloadOf(res)
    IN  IF Truthy(GetMessage(payload)) THEN GetMessage(payload).v
        ELSE IF Truthy(GetError(payload)) THEN GetError(payload).v
        ELSE <<"HTTP ">> \o NumToText(res.status)

\* JSON.stringify of a value that has a JSON text
Stringify(v) ==
    CASE v.t = "null" -> <<"null">>
      [] v.t = "num" -> v.v
      [] v.t = "str" -> <<"\"">> \o v.v \o <<"\"">>
      [] v.t = "obj" -> <<"{">> \o v.v \o <<"}">>

\* the options object of request(): own properties method, headers, body
Options(m, h, b) == [method |-> m, headers |-> h, body |-> b]

\* { ...base, ...opts }: an own property of opts replaces that of base, also
\* when its value is undefined; spreading undefined adds nothing
Spread(base, opts) ==
    IF ~opts.passed THEN base
    ELSE Options(IF opts.method.t = "absent" THEN base.method ELSE opts.method,
                 IF opts.headers.t = "absent" THEN base.headers ELSE opts.headers,
                 IF opts.body.t = "absent" THEN base.body ELSE opts.body)

\* the verb each shortcut names
VerbOf ==
    [fn \in {"get", "post", "put", "del"} |->
        CASE fn = "get" -> Str(<<"GET">>)
          [] fn = "post" -> Str(<<"POST">>)
          [] fn = "put" -> Str(<<"PUT">>)
          [] fn = "del" -> Str(<<"DELETE">>)]

\* the options the shortcuts hand to request():
\* { method: 'GET', ...opts } and { method: 'POST', body, ...opts }
Shortcut(c) ==
    IF c.fn \in {"post", "put"}
    THEN Spread(Options(VerbOf[c.fn], Absent, c.body), c.opts)
    ELSE Spread(Options(VerbOf[c.fn], Absent, Absent), c.opts)

\* the request fetch is called with: { method = 'GET', headers = {}, body }
\* destructured (a default applies to an absent or undefined property), the
\* content type application/json unless the headers carry one, the body
\* serialized when truthy
NoBody == [has |-> FALSE, text |-> <<>>]
SentBody(text) == [has |-> TRUE, text |-> text]

FetchInit(o) ==
    [method |-> IF o.method.t \in {"absent", "undef"} THEN <<"GET">> ELSE o.method.v,
     ctype |-> IF o.headers.t = "hdr" /\ o.headers.v # <<>> THEN o.headers.v
               ELSE AppJson,
     body |-> IF Truthy(o.body) THEN SentBody(Stringify(o.body)) ELSE NoBody]

\* fetch rejects with a TypeError, sending nothing, when a GET carries a body
FetchRefuses(init) == init.method = <<"GET">> /\ init.body.has
GetBodyErrorText == <<"Request with GET/HEAD method cannot have body.">>

\* how a call of request() ends: it throws Error(message) or returns value
Threw(m) == [threw |-> TRUE, message |-> m, value |-> JsNull]
Returned(v) == [threw |-> FALSE, message |-> <<>>, value |-> v]

\* a wrapper that awaits res.json() without the catch
RequestParseThrows(res) ==
    IF res.kind = "reject" THEN Threw(FetchErrorText)
    ELSE IF IsJSON(res) /\ ~res.body.parses THEN Threw(<<"Unexpected token">>)
    ELSE IF ~Ok(res.status) THEN Threw(ErrorText(res))
    ELSE Returned(PayloadOf(res))

\* request(): the part after fetch settles
Request(res) ==
    IF res.kind = "reject" THEN Threw(FetchErrorText)
    ELSE IF ~Ok(res.status) THEN Threw(ErrorText(res))
    ELSE Returned(PayloadOf(res))

\* http.post / registerUser: the result of request() is passed through
RegisterUser(res) == Request(res)

\* the arguments of a shortcut call: the body (post and put only) and opts
NoOpts == [passed |-> FALSE, method |-> Absent, headers |-> Absent, body |-> Absent]
Call(fn, body, opts) == [fn |-> fn, body |-> body, opts |-> opts]

\* the call registerUser makes: http.post(path, { firstName, ... })
RegisterCall == Call("post", Obj(<<"\"firstName\":\"a\"">>), NoOpts)

\* the body arguments and options objects callers pass
BodyArgs == {Undef, Null, Num(<<"0">>), Str(<<>>), Str(<<"x">>), Obj(<<"\"a\":1">>)}
OptsArgs ==
    {NoOpts} \cup
    [passed : {TRUE},
     method : {Absent, Undef, Str(<<"GET">>), Str(<<"DELETE">>)},
     headers : {Absent, Headers(<<>>), Headers(<<"text/", "plain">>)},
     body : {Absent, Undef, Obj(<<"\"b\":2">>)}]
Calls ==
    {Call(fn, Undef, o) : fn \in {"get", "del"}, o \in OptsArgs}
        \cup {Call(fn, b, o) : fn \in {"post", "put"}, b \in BodyArgs, o \in OptsArgs}

\* no request issued yet
NoRequest == [issued |-> FALSE, method |-> <<>>, ctype |-> <<>>, body |-> NoBody]

HxIdle ==
    [pc |-> "idle", call |-> RegisterCall, req |-> NoRequest,
     res |-> FetchRejected, result |-> Returned(JsNull)]

\* a shortcut is called: request() destructures its options and calls fetch,
\* which issues the request or rejects without sending
HttpSend ==
    LET init == FetchInit(Shortcut(hx.call))
    IN  /\ hx.pc = "call"
        /\ hx' = IF FetchRefuses(init)
                 THEN [hx EXCEPT !.pc = "settled",
                                 !.result = Threw(GetBodyErrorText)]
                 ELSE [hx EXCEPT !.pc = "sent",
                                 !.req = [issued |-> TRUE, method |-> init.method,
                                          ctype |-> init.ctype, body |-> init.body]]
        /\ UNCHANGED <<routerVars, homeVars, boardVars, uncaught>>

\* the wrapper's fetch settles and request() runs to its end
HttpSettle ==
    /\ hx.pc = "sent"
    /\ hx' = [hx EXCEPT !.pc = "settled", !.result = Request(hx.res)]
    /\ UNCHANGED <<routerVars, homeVars, boardVars, uncaught>>

----------------------------------------------------------------------------
(* Views: the markup fragments and the container *)

\* element ids the home fragment holds ("submit" is button[type="submit"])
HomeMarkup ==
    {"registerForm", "username", "lastName", "age", "email", "password",
     "confirmPassword", "registerMsg", "submit"}

\* element ids the board fragment holds
BoardMarkup == {"todoForm", "newTodo", "todoList"}

FullMarkup == [n \in known |-> IF n = HomeName THEN HomeMarkup ELSE BoardMarkup]

\* app.innerHTML before the first render
BlankView == <<>>
\* app.innerHTML after a failed load
ErrorView == <<"<p style=\"color:#ffb4b4\">Error loading the view.</p>">>

\* the container's state: the markup written, the load that wrote it and the
\* fragment that load was started for, the elements it holds, the
\* initializers run on it and the listeners they added (a bag: an element
\* runs a listener once for each addEventListener call that added it)
Container(view, by, from, elems, inited, handlers) ==
    [view |-> view, by |-> by, from |-> from, elems |-> elems,
     inited |-> inited, handlers |-> handlers]

\* the container before the first render
Blank == Container(BlankView, 0, <<>>, {}, {}, EmptyBag)

\* initHome: adds the submit listener unless #registerForm is absent
InitHome(elems) ==
    IF "registerForm" \notin elems THEN EmptyBag ELSE SetToBag({"register"})

\* initBoard: adds both listeners unless one of the three elements is absent
InitBoard(elems) ==
    IF ~({"todoForm", "newTodo", "todoList"} \subseteq elems) THEN EmptyBag
    ELSE SetToBag({"todoSubmit", "todoClick"})

\* a loadView that calls both initializers whatever the name
InitsForAll(name) == {"initHome", "initBoard"}

\* the initializers loadView calls for a view name
InitsFor(name) ==
    (IF name = HomeName THEN {"initHome"} ELSE {})
        \cup (IF name = BoardName THEN {"initBoard"} ELSE {})

\* the listeners those initializers add on the rendered elements
HandlersFor(name, elems) ==
    (IF "initHome" \in InitsFor(name) THEN InitHome(elems) ELSE EmptyBag)
        (+) (IF "initBoard" \in InitsFor(name) THEN InitBoard(elems) ELSE EmptyBag)

\* a registration form as rendered: empty message, submit control enabled
NewForm == [msg |-> <<>>, disabled |-> FALSE, pending |-> 0]

\* a loadView whose initializers add their listeners to elements that stay
\* in the document from one load to the next
RenderedKeepingListeners(l) ==
    Container(l.name, l.id, l.from, served[l.name], InitsFor(l.name),
              app.handlers (+) HandlersFor(l.name, served[l.name]))

\* a loadView that leaves the container alone when a later load wrote it
RenderedIfLatest(l) ==
    IF l.id < app.by THEN app
    ELSE Container(l.name, l.id, l.from, served[l.name], InitsFor(l.name),
                   HandlersFor(l.name, served[l.name]))

\* the container after app.innerHTML = html and the initializer of load l
Rendered(l) ==
    Container(l.name, l.id, l.from, served[l.name], InitsFor(l.name),
              HandlersFor(l.name, served[l.name]))

\* a catch handler that runs the view's initializer on the error message
FailedInited(l) == Container(ErrorView, l.id, l.from, {}, InitsFor(l.name), EmptyBag)

\* the container after the catch handler of handleRoute
Failed(l) == Container(ErrorView, l.id, l.from, {}, {}, EmptyBag)

----------------------------------------------------------------------------
(* Router actions *)

\* a handleRoute that skips the load when the view resolved is on display
StartLoadUnlessShown ==
    IF RouteOf(hash) = app.view
    THEN UNCHANGED <<loads, nFetch>>
    ELSE /\ loads' = loads \cup
                {[id |-> nFetch + 1, name |-> RouteOf(hash), from |-> hash,
                  stage |-> "fetch"]}
         /\ nFetch' = nFetch + 1

\* handleRoute: resolve the route from location.hash and call loadView
StartLoad ==
    /\ loads' = loads \cup
           {[id |-> nFetch + 1, name |-> RouteOf(hash), from |-> hash,
             stage |-> "fetch"]}
    /\ nFetch' = nFetch + 1

\* initRouter: listen to hashchange, then the first handleRoute
InitRouter ==
    /\ ~listening
    /\ listening' = TRUE
    /\ StartLoad
    /\ UNCHANGED <<hash, hashEvents, nChange, app, served>>
    /\ UNCHANGED <<homeVars, boardVars, uncaught, hx>>

\* an assignment to location.hash: a hashchange event is queued only when
\* the fragment changes
SetHash(h) ==
    IF h = hash
    THEN UNCHANGED <<hash, nChange, hashEvents>>
    ELSE /\ hash' = h
         /\ nChange' = nChange + 1
         /\ hashEvents' = hashEvents + 1

\* the user navigates to another fragment
Navigate(h, max) ==
    /\ listening
    /\ nChange < max
    /\ h # hash
    /\ SetHash(h)
    /\ UNCHANGED <<listening, loads, nFetch, app, served>>
    /\ UNCHANGED <<homeVars, boardVars, uncaught, hx>>

\* the browser dispatches a queued hashchange event to handleRoute
HashChange ==
    /\ listening
    /\ hashEvents > 0
    /\ hashEvents' = hashEvents - 1
    /\ StartLoad
    /\ UNCHANGED <<listening, hash, nChange, app, served>>
    /\ UNCHANGED <<homeVars, boardVars, uncaught, hx>>

\* the forms that outlive a write to app.innerHTML: a form taken out of the
\* document is still held by the listener of each POST it has in flight
Referenced == {g \in DOMAIN forms : forms[g].pending > 0}

\* loadView: fetch resolved with res.ok, res.text() is awaited
LoadFetched(l) ==
    /\ l \in loads
    /\ l.stage = "fetch"
    /\ loads' = (loads \ {l}) \cup {[l EXCEPT !.stage = "text"]}
    /\ UNCHANGED <<listening, hash, hashEvents, nFetch, nChange, app, served>>
    /\ UNCHANGED <<homeVars, boardVars, uncaught, hx>>

\* loadView rejects (fetch rejected, !res.ok, or res.text() rejected) and the
\* catch handler of handleRoute writes the error message
LoadFailed(l) ==
    /\ l \in loads
    /\ loads' = loads \ {l}
    /\ app' = Failed(l)
    /\ forms' = [g \in Referenced |-> forms[g]]
    /\ todos' = <<>>
    /\ input' = <<>>
    /\ UNCHANGED <<listening, hash, hashEvents, nFetch, nChange, served>>
    /\ UNCHANGED <<timers, nPost, nextId, uncaught, hx>>

\* a loadView that renders the board around the list already in the document
LoadRenderedKeepingList(l) ==
    /\ l \in loads
    /\ l.stage = "text"
    /\ loads' = loads \ {l}
    /\ app' = Rendered(l)
    /\ forms' = IF "registerForm" \in Rendered(l).elems
                THEN [g \in Referenced \cup {l.id} |->
                         IF g = l.id THEN NewForm ELSE forms[g]]
                ELSE [g \in Referenced |-> forms[g]]
    /\ todos' = IF l.name = BoardName THEN todos ELSE <<>>
    /\ input' = <<>>
    /\ UNCHANGED <<listening, hash, hashEvents, nFetch, nChange, served>>
    /\ UNCHANGED <<timers, nPost, nextId, uncaught, hx>>

\* loadView: app.innerHTML = html, then the view's initializer
LoadRendered(l) ==
    /\ l \in loads
    /\ l.stage = "text"
    /\ loads' = loads \ {l}
    /\ app' = Rendered(l)
    /\ forms' = IF "registerForm" \in Rendered(l).elems
                THEN [g \in Referenced \cup {l.id} |->
                         IF g = l.id THEN NewForm ELSE forms[g]]
                ELSE [g \in Referenced |-> forms[g]]
    /\ todos' = <<>>
    /\ input' = <<>>
    /\ UNCHANGED <<listening, hash, hashEvents, nFetch, nChange, served>>
    /\ UNCHANGED <<timers, nPost, nextId, uncaught, hx>>

----------------------------------------------------------------------------
(* Home view: the registration form (initHome) *)

ValidationText == <<"Por favor completa usuario y contrase\\u00f1a.">>
SuccessText == <<"Registro exitoso">>
FailurePrefix == <<"No se pudo registrar: ">>

\* values the user types into a text input
InputTexts == {<<>>, <<" ", "\t">>, <<" ", "a", " ">>}

\* input?.value.trim(): undefined when the input is absent
FieldOf(elems, id, typed) == IF id \in elems THEN Str(Trim(typed)) ELSE Undef

\* the responses the registration backend answers with
RegResponses ==
    { [kind |-> "response", status |-> 201, ctype |-> CType(AppJson),
       body |-> [parses |-> TRUE, value |-> JsObj(Undef, Undef)]],
      [kind |-> "response", status |-> 400, ctype |-> CType(AppJson),
       body |-> [parses |-> TRUE, value |-> JsObj(Str(<<"X">>), Str(<<"bad">>))]],
      [kind |-> "response", status |-> 400, ctype |-> CType(<<"text/", "html">>),
       body |-> [parses |-> FALSE, value |-> JsNull]],
      FetchRejected }

\* the browser submits a form through its submit button only while the
\* button is enabled (click and implicit submission alike)
CanSubmit(elems, form) == "submit" \in elems => ~form.disabled

\* a validation that forgets the password
InvalidNameOnly(firstName, password) == ~Truthy(firstName)

\* if (!firstName || !password)
Invalid(firstName, password) == ~Truthy(firstName) \/ ~Truthy(password)

\* a listener that starts the POST without disabling the submit control
PostingEnabled(form) == [form EXCEPT !.msg = <<>>, !.pending = @ + 1]

\* the form the submit listener closes over after validation: the submit
\* control disabled, one more POST in flight
Posting(form) ==
    [form EXCEPT !.msg = <<>>, !.disabled = TRUE, !.pending = @ + 1]

\* a submit event on #registerForm: each submit listener on the form runs up
\* to the await of registerUser
SubmitRegister(first, pass) ==
    LET g == app.by
        n == CopiesIn("register", app.handlers)
        firstName == FieldOf(app.elems, "username", first)
        password == FieldOf(app.elems, "password", pass)
    IN  /\ BagIn("register", app.handlers)
        /\ g \in DOMAIN forms
        /\ CanSubmit(app.elems, forms[g])
        /\ UNCHANGED <<routerVars, timers, boardVars, hx>>
        /\ IF "registerMsg" \notin app.elems
           THEN \* msg.textContent = '' on null
                /\ uncaught' = TRUE
                /\ UNCHANGED <<forms, nPost>>
           ELSE IF Invalid(firstName, password)
           THEN /\ forms' = [forms EXCEPT ![g].msg = ValidationText]
                /\ UNCHANGED <<nPost, uncaught>>
           ELSE IF "submit" \notin app.elems
           THEN \* form.querySelector(...) is null
                /\ forms' = [forms EXCEPT ![g].msg = <<>>]
                /\ uncaught' = TRUE
                /\ UNCHANGED nPost
           ELSE /\ nPost < MaxPost
                /\ forms' = [forms EXCEPT
                                ![g] = [Posting(forms[g]) EXCEPT
                                           !.pending = forms[g].pending + n]]
                /\ nPost' = nPost + n
                /\ UNCHANGED uncaught

\* a listener that enables the control in the try block, not in finally
SettledNoFinally(form, result) ==
    [form EXCEPT
        !.msg = IF result.threw THEN FailurePrefix \o result.message
                ELSE SuccessText,
        !.disabled = result.threw,
        !.pending = @ - 1]

\* the form after registerUser settled: try / catch / finally
Settled(form, result) ==
    [form EXCEPT
        !.msg = IF result.threw THEN FailurePrefix \o result.message
                ELSE SuccessText,
        !.disabled = FALSE,
        !.pending = @ - 1]

\* a listener that schedules the redirect in finally
ScheduledAlways(n, result) == n + 1

\* a listener that never schedules the redirect
ScheduledNever(n, result) == n

\* timers after registerUser settled: setTimeout only on success
Scheduled(n, result) == IF result.threw THEN n ELSE n + 1

\* the POST of form g settles with response res and the listener resumes
RegisterSettle(g, res) ==
    /\ g \in DOMAIN forms
    /\ forms[g].pending > 0
    /\ forms' = [forms EXCEPT ![g] = Settled(forms[g], RegisterUser(res))]
    /\ timers' = Scheduled(timers, RegisterUser(res))
    /\ UNCHANGED <<routerVars, nPost, boardVars, uncaught, hx>>

\* the timer callback: location.hash = '#/board'
TimerFire ==
    /\ timers > 0
    /\ timers' = timers - 1
    /\ SetHash(BoardHash)
    /\ UNCHANGED <<listening, loads, nFetch, app, served>>
    /\ UNCHANGED <<forms, nPost, boardVars, uncaught, hx>>

----------------------------------------------------------------------------
(* Board view: the todo list (initBoard) *)

\* the markup of a checkbox of class "check", one token
CheckTag == "<input type=\"checkbox\" class=\"check\">"

\* what the user types into #newTodo; CheckTag is a tag and "&amp;" a
\* character reference, one token each
TodoTexts ==
    {<<>>, <<" ", "\t">>, <<" ", "a", " ">>, <<CheckTag, "a", "&amp;">>}

\* the text of the <span> after li.innerHTML parsed `<span>${title}</span>`:
\* a tag becomes an element, a character reference its character
RECURSIVE HtmlText(_)
HtmlText(s) ==
    IF s = <<>> THEN <<>>
    ELSE IF Head(s) = CheckTag THEN HtmlText(Tail(s))
    ELSE IF Head(s) = "&amp;" THEN <<"&">> \o HtmlText(Tail(s))
    ELSE <<Head(s)>> \o HtmlText(Tail(s))

\* the element of class "check" that the parsed title adds to the <span>,
\* beside the checkbox of the template: none, or a checkbox, unchecked
TitleCheck(s) == IF \E i \in 1..Len(s) : s[i] = CheckTag THEN "off" ELSE "none"

\* the <li class="todo"> built for a title
NewItem(id, title) ==
    [id |-> id, html |-> title, text |-> HtmlText(title), checked |-> FALSE,
     completed |-> FALSE, extra |-> TitleCheck(title)]

\* list.prepend(li)
Prepend(list, li) == <<li>> \o list

\* a removal that finds the item by its title
RemoveByTitle(list, i) == SelectSeq(list, LAMBDA li : li.text # list[i].text)

\* li.remove() for the i-th child
RemoveAt(list, i) == SubSeq(list, 1, i - 1) \o SubSeq(list, i + 1, Len(list))

\* li.classList.toggle('completed', e.target.checked) after the browser
\* flipped the checkbox
Toggled(li) == [li EXCEPT !.checked = ~@, !.completed = ~li.checked]

\* the same for a click on the checkbox the title added: e.target is that
\* checkbox, the checkbox of the template is left as it was
ToggledByTitle(li) ==
    [li EXCEPT !.extra = IF @ = "off" THEN "on" ELSE "off",
               !.completed = (li.extra = "off")]

\* the user edits #newTodo
TypeTodo(v) ==
    /\ "newTodo" \in app.elems
    /\ v # input
    /\ input' = v
    /\ UNCHANGED <<routerVars, homeVars, todos, nextId, uncaught, hx>>

\* a submit event on #todoForm: the submit listener (a second copy of it
\* would find the input cleared and return)
SubmitTodo ==
    LET title == Trim(input)
    IN  /\ BagIn("todoSubmit", app.handlers)
        /\ IF title = <<>>
           THEN UNCHANGED <<todos, input, nextId>>
           ELSE /\ nextId <= MaxTodos
                /\ todos' = Prepend(todos, NewItem(nextId, title))
                /\ input' = <<>>
                /\ nextId' = nextId + 1
        /\ UNCHANGED <<routerVars, homeVars, uncaught, hx>>

\* where a click inside #todoList lands: on the remove button, the checkbox
\* or the text of the i-th item, on the checkbox its title added, or on the
\* list outside every item
ClickTargets ==
    [kind : {"remove", "check", "text"}, idx : 1..Len(todos)]
        \cup [kind : {"title"}, idx : {i \in 1..Len(todos) : todos[i].extra # "none"}]
        \cup [kind : {"list"}, idx : {0}]

\* the click listener of #todoList
ListClick(t) ==
    /\ BagIn("todoClick", app.handlers)
    /\ t \in ClickTargets
    /\ todos' = IF t.kind = "remove" THEN RemoveAt(todos, t.idx)
                ELSE IF t.kind = "check"
                THEN [todos EXCEPT ![t.idx] = Toggled(todos[t.idx])]
                ELSE IF t.kind = "title"
                THEN [todos EXCEPT ![t.idx] = ToggledByTitle(todos[t.idx])]
                ELSE todos
    /\ UNCHANGED <<routerVars, homeVars, input, nextId, uncaught, hx>>

----------------------------------------------------------------------------
(* Specifications *)

Init ==
    /\ listening = FALSE
    /\ hash \in Fragments
    /\ hashEvents = 0
    /\ loads = {}
    /\ nFetch = 0
    /\ nChange = 0
    /\ app = Blank
    /\ served = FullMarkup
    /\ forms = <<>>
    /\ timers = 0
    /\ nPost = 0
    /\ todos = <<>>
    /\ input = <<>>
    /\ nextId = 1
    /\ uncaught = FALSE
    /\ hx = HxIdle

\* the router, with the user navigating among the fragments F, max times
RouterNext(F, max) ==
    \/ InitRouter
    \/ \E h \in F : Navigate(h, max)
    \/ HashChange
    \/ \E l \in loads : LoadFetched(l)
    \/ \E l \in loads : LoadFailed(l)
    \/ \E l \in loads : LoadRendered(l)

\* the router and the registration form
Next ==
    \/ RouterNext(Fragments, MaxNav)
    \/ \E first, pass \in InputTexts : SubmitRegister(first, pass)
    \/ \E g \in DOMAIN forms, res \in RegResponses : RegisterSettle(g, res)
    \/ TimerFire

Spec == Init /\ [][Next]_vars

\* the router and the todo board, the user moving between the two views
BoardFragments == {HomeHash, BoardHash}

InitOnBoard ==
    /\ listening = FALSE
    /\ hash \in BoardFragments
    /\ hashEvents = 0
    /\ loads = {}
    /\ nFetch = 0
    /\ nChange = 0
    /\ app = Blank
    /\ served = FullMarkup
    /\ forms = <<>>
    /\ timers = 0
    /\ nPost = 0
    /\ todos = <<>>
    /\ input = <<>>
    /\ nextId = 1
    /\ uncaught = FALSE
    /\ hx = HxIdle

NextBoard ==
    \/ RouterNext(BoardFragments, MaxNav)
    \/ \E v \in TodoTexts : TypeTodo(v)
    \/ SubmitTodo
    \/ \E t \in ClickTargets : ListClick(t)

SpecBoard == InitOnBoard /\ [][NextBoard]_vars

\* the first render alone, for every fragment the page can be opened with
InitRoute ==
    /\ listening = FALSE
    /\ hash \in RouteFragments
    /\ hashEvents = 0
    /\ loads = {}
    /\ nFetch = 0
    /\ nChange = 0
    /\ app = Blank
    /\ served = FullMarkup
    /\ forms = <<>>
    /\ timers = 0
    /\ nPost = 0
    /\ todos = <<>>
    /\ input = <<>>
    /\ nextId = 1
    /\ uncaught = FALSE
    /\ hx = HxIdle

NextRoute ==
    \/ InitRouter
    \/ \E l \in loads : LoadFetched(l)
    \/ \E l \in loads : LoadFailed(l)
    \/ \E l \in loads : LoadRendered(l)

SpecRoute == InitRoute /\ [][NextRoute]_vars

\* the router and the registration form under the event loop's guarantees:
\* a pending timer fires and a pending POST settles
SpecFair ==
    /\ Spec
    /\ WF_vars(TimerFire)
    /\ WF_vars(\E g \in DOMAIN forms, res \in RegResponses : RegisterSettle(g, res))

\* the router and both views, the user moving between them, filling in the
\* registration form and adding todos
PlainTexts == {<<" ", "\t">>, <<" ", "a", " ">>}

NextViews ==
    \/ RouterNext(BoardFragments, MaxViewNav)
    \/ \E first, pass \in InputTexts : SubmitRegister(first, pass)
    \/ \E g \in DOMAIN forms, res \in RegResponses : RegisterSettle(g, res)
    \/ TimerFire
    \/ \E v \in PlainTexts : TypeTodo(v)
    \/ SubmitTodo

SpecViews == InitOnBoard /\ [][NextViews]_vars

\* the first render of fragments that lack one of the elements a view's
\* initializer looks up, and the events the user can then raise
PartialMarkups ==
    {[FullMarkup EXCEPT ![HomeName] = HomeMarkup \ {e}] : e \in HomeMarkup}
        \cup {[FullMarkup EXCEPT ![BoardName] = BoardMarkup \ {e}] : e \in BoardMarkup}

InitPartial ==
    /\ listening = FALSE
    /\ hash \in BoardFragments
    /\ hashEvents = 0
    /\ loads = {}
    /\ nFetch = 0
    /\ nChange = 0
    /\ app = Blank
    /\ served \in PartialMarkups
    /\ forms = <<>>
    /\ timers = 0
    /\ nPost = 0
    /\ todos = <<>>
    /\ input = <<>>
    /\ nextId = 1
    /\ uncaught = FALSE
    /\ hx = HxIdle

NextPartial ==
    \/ InitRouter
    \/ HashChange
    \/ \E l \in loads : LoadFetched(l)
    \/ \E l \in loads : LoadFailed(l)
    \/ \E l \in loads : LoadRendered(l)
    \/ \E first, pass \in InputTexts : SubmitRegister(first, pass)
    \/ \E g \in DOMAIN forms, res \in RegResponses : RegisterSettle(g, res)
    \/ TimerFire
    \/ \E v \in TodoTexts : TypeTodo(v)
    \/ SubmitTodo
    \/ \E t \in ClickTargets : ListClick(t)

SpecPartial == InitPartial /\ [][NextPartial]_vars

\* the HTTP wrapper alone: one response for each run
InitHttp ==
    /\ listening = FALSE
    /\ hash = <<>>
    /\ hashEvents = 0
    /\ loads = {}
    /\ nFetch = 0
    /\ nChange = 0
    /\ app = Blank
    /\ served = FullMarkup
    /\ forms = <<>>
    /\ timers = 0
    /\ nPost = 0
    /\ todos = <<>>
    /\ input = <<>>
    /\ nextId = 1
    /\ uncaught = FALSE
    /\ \E res \in Responses \cup {FetchRejected} :
           hx = [HxIdle EXCEPT
                    !.pc = "sent",
                    !.req = [issued |-> TRUE, method |-> <<"POST">>,
                             ctype |-> AppJson,
                             body |-> SentBody(Stringify(RegisterCall.body))],
                    !.res = res]

NextHttp == HttpSettle

SpecHttp == InitHttp /\ [][NextHttp]_vars

\* the four shortcuts, called with every body and options argument
CallResponses ==
    { [kind |-> "response", status |-> 200, ctype |-> CType(AppJson),
       body |-> [parses |-> TRUE, value |-> JsObj(Undef, Undef)]],
      [kind |-> "response", status |-> 404, ctype |-> NoCType,
       body |-> [parses |-> FALSE, value |-> JsNull]] }

InitCall ==
    /\ listening = FALSE
    /\ hash = <<>>
    /\ hashEvents = 0
    /\ loads = {}
    /\ nFetch = 0
    /\ nChange = 0
    /\ app = Blank
    /\ served = FullMarkup
    /\ forms = <<>>
    /\ timers = 0
    /\ nPost = 0
    /\ todos = <<>>
    /\ input = <<>>
    /\ nextId = 1
    /\ uncaught = FALSE
    /\ \E c \in Calls, res \in CallResponses :
           hx = [HxIdle EXCEPT !.pc = "call", !.call = c, !.res = res]

NextCall == HttpSend \/ HttpSettle

SpecCall == InitCall /\ [][NextCall]_vars

----------------------------------------------------------------------------
(* Properties of the router *)

\* C1: handleRoute resolves a fragment to board exactly when the fragment is
\* "#/board", and to home for every other fragment.
C1_RouteResolution ==
    /\ \A l \in loads :
           l.name = IF l.from = BoardHash THEN BoardName ELSE HomeName
    /\ app.by # 0 /\ app.view # ErrorView =>
           app.view = IF app.from = BoardHash THEN BoardName ELSE HomeName

\* a fragment with a known name behind a prefix other than "#/" has been
\* rendered as home
C1_Witness ==
    /\ app.from = <<"#">> \o BoardName
    /\ app.view = HomeName

\* the view's own initializer, by name
OwnInit(view) == IF view = HomeName THEN {"initHome"} ELSE {"initBoard"}

\* C2 as stated: once the load of a navigation has completed (nothing is in
\* flight, no hashchange is queued, the last write was a view), the container
\* holds the view named by the current fragment, initialized by that view's
\* initializer alone.
C2_CurrentFragment ==
    (loads = {} /\ hashEvents = 0 /\ app.view \in known) =>
        /\ app.view = RouteOf(hash)
        /\ app.inited = OwnInit(app.view)

\* C2 as amended: a rendered container holds the view named by the fragment
\* its load was started for, with exactly that view's markup and only that
\* view's initializer run on it; when the load is the one started last and no
\* hashchange is queued, that fragment is the current one.
C2_RenderedView ==
    app.view \in known =>
        /\ app.view = RouteOf(app.from)
        /\ app.elems = served[app.view]
        /\ app.inited = OwnInit(app.view)
        /\ (app.by = nFetch /\ hashEvents = 0 => app.from = hash)

\* the load of a navigation to "#/" has rendered home after the fragment changed
C2_Witness ==
    /\ app.view = HomeName
    /\ app.from = HashPrefix
    /\ app.inited = {"initHome"}
    /\ app.by = nFetch
    /\ nChange > 0
    /\ hashEvents = 0

\* C13: when a view load fails, the container holds the fixed error message
\* with no initializer run and no listener on it, the load is over, and no
\* fetch is started and no hashchange queued by the failure.
C13_LoadFailure ==
    [][app' # app => \A l \in loads :
          LoadFailed(l) =>
              /\ app'.view = ErrorView
              /\ app'.by = l.id
              /\ app'.inited = {}
              /\ app'.handlers = EmptyBag
              /\ loads' = loads \ {l}
              /\ nFetch' = nFetch
              /\ hashEvents' = hashEvents]_vars

\* the load of a navigation has failed and nothing was started after it
C13_Witness ==
    /\ app.view = ErrorView
    /\ nChange > 0
    /\ app.by = nFetch
    /\ app.from = hash
    /\ loads = {}
    /\ hashEvents = 0

\* C14: on markup that lacks any one of the elements a view's initializer
\* looks up, no listener the initializer added can fail: no submit or click
\* event ends in an uncaught exception.
C14_PartialMarkupSafe == ~uncaught

\* the ids of a set of loads
Ids(ls) == {l.id : l \in ls}

\* C15: a load leaves only by completing, and when it completes it writes the
\* container, whichever load wrote it before: the container holds the result
\* of the load that completed last.
C15_LastWriteWins ==
    /\ [][\A i \in Ids(loads) \ Ids(loads') : app'.by = i]_vars
    /\ [][app' # app =>
             \E l \in loads :
                 /\ l.id \notin Ids(loads')
                 /\ app'.by = l.id
                 /\ app'.from = l.from
                 /\ app'.view \in {l.name, ErrorView}]_vars

\* no load is pending, the container shows the view of the earlier
\* navigation and the fragment names the other view
C15_Witness ==
    /\ loads = {}
    /\ hashEvents = 0
    /\ app.view \in known
    /\ app.by < nFetch
    /\ app.from # hash
    /\ app.view # RouteOf(hash)

\* C17 as stated: once the router is initialized, the number of view fetches
\* started is one plus the number of changes of the fragment, in every state.
C17_FetchPerChange == listening => nFetch = 1 + nChange

\* C17 as amended: initRouter starts one fetch; a change of the fragment
\* queues one hashchange event and the dispatch of that event starts one
\* fetch, whatever view is on display; nothing else starts a fetch.  So the
\* fetches started and the events still queued are together one plus the
\* changes of the fragment.
C17_FetchPerDispatch ==
    /\ [](listening => nFetch + hashEvents = 1 + nChange)
    /\ [](~listening => nFetch = 0 /\ nChange = 0 /\ hashEvents = 0)
    /\ [][nChange' # nChange =>
             /\ nChange' = nChange + 1
             /\ hashEvents' = hashEvents + 1
             /\ nFetch' = nFetch]_vars
    /\ [][nFetch' # nFetch =>
             /\ nFetch' = nFetch + 1
             /\ Cardinality(loads') = Cardinality(loads) + 1
             /\ \/ ~listening /\ listening'
                \/ hashEvents' = hashEvents - 1 /\ nChange' = nChange]_vars

\* the fragment changed to another that names the view on display, and the
\* fetch of that view is in flight
C17_Witness ==
    /\ nChange > 0
    /\ hashEvents = 0
    /\ nFetch = 1 + nChange
    /\ app.view \in known
    /\ \E l \in loads : l.id = nFetch /\ l.name = app.view /\ l.from # app.from

----------------------------------------------------------------------------
(* Properties of the registration form *)

\* C3: a submit with a blank (empty or white-space) first name or password
\* starts no POST, shows the validation text, leaves the submit control
\* enabled and leaves the route alone.
C3_BlankSubmit ==
    [][forms' # forms => \A first, pass \in InputTexts :
          (SubmitRegister(first, pass)
              /\ (Trim(first) = <<>> \/ Trim(pass) = <<>>)) =>
             /\ nPost' = nPost
             /\ forms'[app.by].pending = forms[app.by].pending
             /\ forms'[app.by].msg = ValidationText
             /\ ~forms'[app.by].disabled
             /\ timers' = timers
             /\ UNCHANGED <<hash, hashEvents, loads, nFetch, app>>]_vars

\* a blank submit was rejected on the form on display
C3_Witness ==
    /\ app.by \in DOMAIN forms
    /\ forms[app.by].msg = ValidationText
    /\ forms[app.by].pending = 0

\* a response that is not a success: the fetch rejected or the status is
\* outside 200..299
IsFailure(res) == res.kind = "reject" \/ res.status < 200 \/ res.status > 299

\* the decimal text of the statuses the model answers with
StatusText ==
    [st \in Statuses |->
        CASE st = 200 -> <<"2", "0", "0">>
          [] st = 201 -> <<"2", "0", "1">>
          [] st = 299 -> <<"2", "9", "9">>
          [] st = 300 -> <<"3", "0", "0">>
          [] st = 400 -> <<"4", "0", "0">>
          [] st = 404 -> <<"4", "0", "4">>
          [] st = 409 -> <<"4", "0", "9">>
          [] st = 500 -> <<"5", "0", "0">>]

\* the content types that announce JSON
JsonTypes == {CType(AppJson), CType(AppJson \o <<";", " charset=utf-8">>)}

\* a field that is present and not empty
NonEmpty(f) == f.t = "str" /\ Len(f.v) > 0

\* the error message the claims name for a failed response: the payload's
\* message, else its error, else "HTTP <status>"; the fetch's own message
\* when the request itself rejected
ExpectedError(res) ==
    LET obj == /\ res.ctype \in JsonTypes
               /\ res.body.parses
               /\ res.body.value.t = "obj"
        m == res.body.value.message
        e == res.body.value.error
    IN  CASE res.kind = "reject" -> FetchErrorText
          [] res.kind # "reject" /\ obj /\ NonEmpty(m) -> m.v
          [] res.kind # "reject" /\ obj /\ ~NonEmpty(m) /\ NonEmpty(e) -> e.v
          [] OTHER -> <<"HTTP ">> \o StatusText[res.status]

\* the ids loads (and the forms they render) can take
LoadIds == 1..(1 + MaxNav + MaxPost)

\* C4: when a validated submit's POST ends with a success status the message
\* is 'Registro exitoso' and a redirect is scheduled; a scheduled redirect
\* leaves only by firing, which makes the fragment "#/board"; and every
\* scheduled redirect does fire, whatever navigation happens meanwhile.
C4_SuccessRedirects ==
    /\ [][\A g \in DOMAIN forms, res \in RegResponses :
             (RegisterSettle(g, res) /\ ~IsFailure(res)) =>
                 /\ forms'[g].msg = SuccessText
                 /\ timers' = timers + 1]_vars
    /\ [][timers' < timers => hash' = BoardHash]_vars
    /\ (timers > 0) ~> (timers = 0 /\ hash = BoardHash)

\* a redirect has fired while the form that scheduled it was on display
C4_Witness ==
    /\ app.by \in DOMAIN forms
    /\ forms[app.by].msg = SuccessText
    /\ timers = 0
    /\ hash = BoardHash
    /\ app.from # BoardHash

\* C5: when the POST fails the message is 'No se pudo registrar: ' followed
\* by the error's message, no redirect is scheduled, the route is left alone
\* and the submit control is enabled again.
C5_FailedPost ==
    [][\A g \in DOMAIN forms, res \in RegResponses :
          (RegisterSettle(g, res) /\ IsFailure(res)) =>
              /\ forms'[g].msg = FailurePrefix \o ExpectedError(res)
              /\ ~forms'[g].disabled
              /\ timers' = timers
              /\ UNCHANGED <<hash, hashEvents, loads, nFetch, app>>]_vars

\* a POST answered 400 without a JSON body has failed on the form on display
C5_Witness ==
    /\ app.by \in DOMAIN forms
    /\ forms[app.by].msg = FailurePrefix \o <<"HTTP ", "4", "0", "0">>
    /\ ~forms[app.by].disabled
    /\ timers = 0

\* C6: a submit control that has been disabled is enabled again once the
\* POST has settled, for every form.
C6_Reenabled ==
    \A g \in LoadIds :
        (g \in DOMAIN forms /\ forms[g].disabled)
            ~> (g \in DOMAIN forms /\ ~forms[g].disabled)

\* every POST the bound allows has settled and the control is enabled
C6_Witness ==
    /\ nPost = MaxPost
    /\ \A g \in DOMAIN forms : forms[g].pending = 0 /\ ~forms[g].disabled
    /\ \E g \in DOMAIN forms : forms[g].msg \notin {<<>>, ValidationText}

----------------------------------------------------------------------------
(* Properties of the todo board *)

\* C8: adding a todo whose trimmed text is not empty inserts one item with
\* that title first in the list, unchecked and not completed, keeps the other
\* items in order and clears the input; a blank add changes nothing.
C8_AddTodo ==
    [][SubmitTodo =>
          IF Trim(input) # <<>>
          THEN /\ Len(todos') = Len(todos) + 1
               /\ todos'[1].text = Trim(input)
               /\ ~todos'[1].checked
               /\ ~todos'[1].completed
               /\ Tail(todos') = todos
               /\ input' = <<>>
          ELSE UNCHANGED <<todos, input>>]_vars

C16_MarkerMatchesCheckbox ==
    \A i \in 1..Len(todos) : todos[i].completed = todos[i].checked

\* C19: whenever a load completes and writes the container, a board load
\* or any other, the todo list and the input are empty in the state that
\* follows, whatever they held.
C19_LoadClearsTodos ==
    [][app' # app => todos' = <<>> /\ input' = <<>>]_vars

\* the board was rendered by a load later than the one that rendered the
\* board on which items were created, and its list is empty
C19_Witness ==
    /\ app.view = BoardName
    /\ app.by > 1
    /\ nextId > 1
    /\ todos = <<>>

----------------------------------------------------------------------------
(* Properties of the two views together *)

\* C18: every listener on the rendered view is there once, whatever was
\* rendered before: a submit of the registration form that passes validation
\* starts one POST, and a submit of a non-blank todo adds one item.
C18_OneListener ==
    /\ [](\A h \in BagToSet(app.handlers) : CopiesIn(h, app.handlers) = 1)
    /\ [][nPost' # nPost =>
             /\ nPost' = nPost + 1
             /\ forms'[app.by].pending = forms[app.by].pending + 1]_vars
    /\ [][SubmitTodo /\ Trim(input) # <<>> => Len(todos') = Len(todos) + 1]_vars

\* after two navigations a submit on the home view, rendered for the second
\* time, has started the only POST
C18_Witness ==
    /\ nChange >= 2
    /\ app.view = HomeName
    /\ app.by >= 3
    /\ app.by \in DOMAIN forms
    /\ forms[app.by].pending = 1
    /\ nPost = 1

----------------------------------------------------------------------------
(* Properties of the HTTP wrapper *)

\* C10: for a response whose status is not a success, request() throws and
\* returns no payload, and the error's message is the payload's message if
\* present and not empty, else its error if present and not empty, else
\* "HTTP <status>" (also when the body is not JSON or does not parse).
C10_ErrorRaised ==
    (hx.pc = "settled" /\ hx.res.kind = "response" /\ IsFailure(hx.res)) =>
        /\ hx.result.threw
        /\ hx.result.value = JsNull
        /\ hx.result.message = ExpectedError(hx.res)

\* a 409 whose JSON body has an empty message and error "bad" was raised as "bad"
C10_Witness ==
    /\ hx.pc = "settled"
    /\ hx.res.status = 409
    /\ hx.res.body.value = JsObj(Str(<<>>), Str(<<"bad">>))
    /\ hx.result.threw
    /\ hx.result.message = <<"bad">>

\* the payload request() is to return for a response: the parsed body when
\* the content type announces JSON and the body parses, null otherwise
ExpectedPayload(res) ==
    IF res.ctype \in JsonTypes /\ res.body.parses THEN res.body.value ELSE JsNull

\* C11: for a response with a success status request() does not throw; it
\* returns the parsed payload when the content type is JSON and the body
\* parses and null otherwise, and the registration listener that receives
\* the result shows the success message and schedules the redirect.
C11_SuccessReturns ==
    (hx.pc = "settled" /\ hx.res.kind = "response" /\ ~IsFailure(hx.res)) =>
        /\ ~hx.result.threw
        /\ hx.result.value = ExpectedPayload(hx.res)
        /\ Settled(Posting(NewForm), RegisterUser(hx.res)).msg = SuccessText
        /\ Scheduled(0, RegisterUser(hx.res)) = 1

\* a 200 announced as JSON whose body does not parse was returned as null
C11_Witness ==
    /\ hx.pc = "settled"
    /\ hx.res.status = 200
    /\ hx.res.ctype = CType(AppJson)
    /\ ~hx.res.body.parses
    /\ hx.result = Returned(JsNull)

\* the body a shortcut is to send for its positional argument
ExpectedBody(c) ==
    IF c.body.t = "undef" THEN NoBody ELSE SentBody(Stringify(c.body))

\* C12: whatever options the caller passes, a request issued by a shortcut
\* carries the shortcut's verb, every shortcut call issues a request, and
\* post and put send their body argument, serialized, as the request body.
C12_ShortcutsBind ==
    /\ hx.pc = "settled" => hx.req.issued
    /\ hx.req.issued =>
           /\ hx.req.method = VerbOf[hx.call.fn].v
           /\ hx.call.fn \in {"post", "put"} => hx.req.body = ExpectedBody(hx.call)

====
